---- MODULE Spec2Model ----
(***************************************************************************)
(* A model of trakt_converter.py: the identifier selector (extract_id),    *)
(* the record normalizer (convert_export_to_import), the shape detector    *)
(* (detect_file_type) and the command-line shell (main).                   *)
(*                                                                         *)
(* JSON values are records tagged by their kind:                           *)
(*   [t |-> "null"]            null, which json.load turns into None       *)
(*   [t |-> "str", s |-> ..]   a string                                    *)
(*   [t |-> "int", n |-> ..]   a number                                    *)
(*   [t |-> "obj", o |-> f]    an object: f is a function from its keys    *)
(*   [t |-> "list", l |-> q]   an array: q is the sequence of its elements *)
(***************************************************************************)
EXTENDS Integers, Sequences, FiniteSets, TLC

VARIABLES
    pc,             \* the position of the running function
    ids,            \* extract_id: its argument
    picked,         \* extract_id: the pair it returned
    data,           \* convert_export_to_import: the input sequence
    idx,            \* convert_export_to_import: items of data consumed by the for loop
    result,         \* convert_export_to_import: the output list
    skipped_count,  \* convert_export_to_import: the skip counter
    argv,           \* main: sys.argv
    infile,         \* main: what the input path holds on disk
    output_file,    \* main: the output path
    file_type,      \* main: what detect_file_type returned
    outfile,        \* main: what this run did to the file at the output path
    exc,            \* main: the exception the try block raised, "none" if none
    exit_code       \* main: the exit status of the process, -1 while it runs

vars == <<pc, ids, picked, data, idx, result, skipped_count, argv, infile,
          output_file, file_type, outfile, exc, exit_code>>

extractVars == <<ids, picked>>
convertVars == <<data, idx, result, skipped_count>>
mainVars == <<argv, infile, output_file, file_type, outfile, exc, exit_code>>

----------------------------------------------------------------------------
(* JSON values and the Python operations the program applies to them *)

None == [t |-> "null"]
JStr(s) == [t |-> "str", s |-> s]
JInt(n) == [t |-> "int", n |-> n]
JObj(o) == [t |-> "obj", o |-> o]
JList(l) == [t |-> "list", l |-> l]

\* Python's truth value of a loaded JSON value: None, "", 0 and {} are falsy.
Truthy(v) ==
    CASE v.t = "null" -> FALSE
      [] v.t = "str"  -> v.s # ""
      [] v.t = "int"  -> v.n # 0
      [] v.t = "obj"  -> DOMAIN v.o # {}

\* k in d, for a dict d
In(k, d) == k \in DOMAIN d.o

\* d.get(k), for a dict d: None when the key is missing
Get(d, k) == IF k \in DOMAIN d.o THEN d.o[k] ELSE None

\* Whether v.get(...) can be evaluated: only a dict has the attribute; on None
\* (and on any other value) Python raises AttributeError.
HasGet(v) == v.t = "obj"

\* d[k] = v, for a dict d
DictSet(d, k, v) == JObj((k :> v) @@ d.o)

----------------------------------------------------------------------------
(* extract_id *)

Providers == {"imdb", "tmdb", "tvdb", "trakt"}

\* extract_id with trakt tested first.
extract_id_trakt_first(i) ==
    IF Truthy(Get(i, "trakt")) THEN <<JStr("trakt_id"), i.o["trakt"]>>
    ELSE IF Truthy(Get(i, "imdb")) THEN <<JStr("imdb_id"), i.o["imdb"]>>
    ELSE IF Truthy(Get(i, "tmdb")) THEN <<JStr("tmdb_id"), i.o["tmdb"]>>
    ELSE IF Truthy(Get(i, "tvdb")) THEN <<JStr("tvdb_id"), i.o["tvdb"]>>
    ELSE <<None, None>>

extract_id(i) ==
    IF Truthy(Get(i, "imdb")) THEN <<JStr("imdb_id"), i.o["imdb"]>>
    ELSE IF Truthy(Get(i, "tmdb")) THEN <<JStr("tmdb_id"), i.o["tmdb"]>>
    ELSE IF Truthy(Get(i, "tvdb")) THEN <<JStr("tvdb_id"), i.o["tvdb"]>>
    ELSE IF Truthy(Get(i, "trakt")) THEN <<JStr("trakt_id"), i.o["trakt"]>>
    ELSE <<None, None>>

----------------------------------------------------------------------------
(* convert_export_to_import: what the loop body computes for one item *)

\* The chain with the movie tested before the episode.
HistoryKeysMovieFirst == <<"movie", "episode", "show", "season">>

\* The nested sub-records of a history item, in the order of the if/elif chain.
HistoryKeys == <<"episode", "movie", "show", "season">>

Raised == [raised |-> TRUE, id_key |-> None, id_value |-> None,
           item_type |-> None, watched_at |-> None]

\* The if/elif chain of a history item from its n-th test on:
\*   item.get(k) and item[k].get("ids")  ->  extract_id(item[k]["ids"])
\* `and` stops at a falsy item.get(k); a truthy one that is no dict raises.
RECURSIVE history_ids(_, _)
history_ids(item, n) ==
    IF n > Len(HistoryKeys) THEN [raised |-> FALSE, id |-> <<None, None>>]
    ELSE LET sub == Get(item, HistoryKeys[n]) IN
         IF ~Truthy(sub) THEN history_ids(item, n + 1)
         ELSE IF ~HasGet(sub) THEN [raised |-> TRUE, id |-> <<None, None>>]
         ELSE IF ~Truthy(Get(sub, "ids")) THEN history_ids(item, n + 1)
         ELSE IF ~HasGet(Get(sub, "ids")) THEN [raised |-> TRUE, id |-> <<None, None>>]
         ELSE [raised |-> FALSE, id |-> extract_id(Get(sub, "ids"))]

\* The watched-movies / watched-shows test for key k:
\*   k in item and item[k].get("ids")
\* item[k].get is evaluated whenever the key is present, whatever its value.
watched_raises(item, k) ==
    In(k, item) /\ (~HasGet(item.o[k])
                    \/ (Truthy(Get(item.o[k], "ids")) /\ ~HasGet(Get(item.o[k], "ids"))))

watched_matches(item, k) ==
    In(k, item) /\ HasGet(item.o[k]) /\ Truthy(Get(item.o[k], "ids"))

watched_branch(item, k) ==
    LET id == extract_id(Get(item.o[k], "ids")) IN
    [raised |-> FALSE, id_key |-> id[1], id_value |-> id[2],
     item_type |-> JStr(k), watched_at |-> Get(item, "last_watched_at")]

\* Lines 48-76: id_key, id_value, item_type and watched_at of one item, or the
\* AttributeError the lookups raise.
resolve(item) ==
    IF In("type", item)
    THEN LET h == history_ids(item, 1) IN
         [raised |-> h.raised, id_key |-> h.id[1], id_value |-> h.id[2],
          item_type |-> Get(item, "type"), watched_at |-> Get(item, "watched_at")]
    ELSE IF watched_raises(item, "movie") THEN Raised
    ELSE IF watched_matches(item, "movie") THEN watched_branch(item, "movie")
    ELSE IF watched_raises(item, "show") THEN Raised
    ELSE IF watched_matches(item, "show") THEN watched_branch(item, "show")
    ELSE [raised |-> FALSE, id_key |-> None, id_value |-> None,
          item_type |-> None, watched_at |-> None]

\* Line 79: if not id_key or not id_value
skips(r) == ~Truthy(r.id_key) \/ ~Truthy(r.id_value)

\* build_entry with rated_at copied whenever its key is present.
build_entry_rated_at_ungated(item, r) ==
    LET e0 == DictSet(DictSet(JObj(<<>>), r.id_key.s, r.id_value), "type", r.item_type)
        e1 == IF Truthy(r.watched_at) THEN DictSet(e0, "watched_at", r.watched_at) ELSE e0
        e2 == IF In("watchlisted_at", item)
              THEN DictSet(e1, "watchlisted_at", item.o["watchlisted_at"]) ELSE e1
        e3 == IF In("rating", item) /\ Truthy(item.o["rating"])
              THEN DictSet(e2, "rating", item.o["rating"]) ELSE e2
    IN  IF In("rated_at", item) THEN DictSet(e3, "rated_at", item.o["rated_at"]) ELSE e3

\* build_entry with the type added only when it is truthy.
build_entry_type_if_truthy(item, r) ==
    LET e0 == DictSet(JObj(<<>>), r.id_key.s, r.id_value)
        e1 == IF Truthy(r.item_type) THEN DictSet(e0, "type", r.item_type) ELSE e0
        e2 == IF Truthy(r.watched_at) THEN DictSet(e1, "watched_at", r.watched_at) ELSE e1
        e3 == IF In("watchlisted_at", item)
              THEN DictSet(e2, "watchlisted_at", item.o["watchlisted_at"]) ELSE e2
    IN  IF In("rating", item) /\ Truthy(item.o["rating"])
        THEN LET e4 == DictSet(e3, "rating", item.o["rating"]) IN
             IF In("rated_at", item) THEN DictSet(e4, "rated_at", item.o["rated_at"]) ELSE e4
        ELSE e3

\* Lines 84-100: the import entry of an item that is not skipped.
build_entry(item, r) ==
    LET e0 == DictSet(DictSet(JObj(<<>>), r.id_key.s, r.id_value), "type", r.item_type)
        e1 == IF Truthy(r.watched_at) THEN DictSet(e0, "watched_at", r.watched_at) ELSE e0
        e2 == IF In("watchlisted_at", item)
              THEN DictSet(e1, "watchlisted_at", item.o["watchlisted_at"]) ELSE e1
    IN  IF In("rating", item) /\ Truthy(item.o["rating"])
        THEN LET e3 == DictSet(e2, "rating", item.o["rating"]) IN
             IF In("rated_at", item) THEN DictSet(e3, "rated_at", item.o["rated_at"]) ELSE e3
        ELSE e2

\* The entry put in front of the list instead of at its end.
prepend_entry(res, entry) == <<entry>> \o res

\* Line 102: result.append(entry)
append_entry(res, entry) == Append(res, entry)

----------------------------------------------------------------------------
(* The input items the specifications draw from *)

MaxLen == 3         \* the longest input sequence of Spec
MaxKeys == 3        \* the most keys of an item of SpecItem
MaxFileLen == 2     \* the longest array in the input file of SpecMain

T1 == JStr("2020-01-01T00:00:00Z")
T2 == JStr("2019-05-05T00:00:00Z")
T3 == JStr("2018-03-03T00:00:00Z")
T4 == JStr("2021-01-01T00:00:00Z")

\* An identifier set with a usable value, different for each sub-record.
GoodIds(k) ==
    CASE k = "episode" -> JObj([tvdb |-> JInt(55)])
      [] k = "movie"   -> JObj([imdb |-> JStr("tt123"), tmdb |-> JInt(456)])
      [] k = "show"    -> JObj([tmdb |-> JInt(789)])
      [] k = "season"  -> JObj([imdb |-> JStr(""), trakt |-> JInt(9)])

\* A non-empty identifier set without a usable value.
FalsyIds == JObj([imdb |-> None, tmdb |-> JInt(0)])

\* What a nested sub-record may be: null, an object without ids, and an object
\* whose ids are empty, all falsy, or usable.
SubRecords(k) ==
    {None, JObj(<<>>), JObj([ids |-> JObj(<<>>)]), JObj([ids |-> FalsyIds]),
     JObj([ids |-> GoodIds(k)])}

Keys == {"type", "episode", "movie", "show", "season", "watched_at",
         "last_watched_at", "watchlisted_at", "rating", "rated_at", "action"}

Options(k) ==
    CASE k = "type" -> {JStr("movie"), JStr("episode"), JStr("person"), JStr(""), None}
      [] k \in {"episode", "movie", "show", "season"} -> SubRecords(k)
      [] k = "watched_at" -> {None, T1}
      [] k = "last_watched_at" -> {None, T2}
      [] k = "watchlisted_at" -> {None, T3}
      [] k = "rating" -> {JInt(0), JInt(8)}
      [] k = "rated_at" -> {None, T4}
      [] k = "action" -> {JStr("scrobble")}

RECURSIVE ItemsOver(_)
ItemsOver(D) ==
    IF D = {} THEN {<<>>}
    ELSE LET k == CHOOSE x \in D : TRUE IN
         {(k :> v) @@ f : v \in Options(k), f \in ItemsOver(D \ {k})}

\* Every item with at most n keys.
Items(n) ==
    {JObj(f) : f \in UNION {ItemsOver(D) : D \in {S \in SUBSET Keys : Cardinality(S) <= n}}}

\* The items of the sequences: one of each shape, usable and not.
HistoryMovie == JObj([type |-> JStr("movie"), movie |-> JObj([ids |-> GoodIds("movie")]),
                      watched_at |-> T1])
RatedEpisode == JObj([type |-> JStr("episode"), episode |-> JObj([ids |-> GoodIds("episode")]),
                      rating |-> JInt(8), rated_at |-> T4])
BareHistory == JObj([type |-> JStr("movie")])
WatchedMovie == JObj([movie |-> JObj([ids |-> GoodIds("movie")]), last_watched_at |-> T2])
WatchedShow == JObj([show |-> JObj([ids |-> GoodIds("show")]), last_watched_at |-> T2])
EmptyShow == JObj([show |-> JObj([ids |-> JObj(<<>>)])])
ActionMovie == JObj([action |-> JStr("scrobble"), movie |-> JObj([ids |-> GoodIds("movie")])])
NullMovie == JObj([movie |-> None])
EmptyItem == JObj(<<>>)

SeqItems == {HistoryMovie, RatedEpisode, BareHistory, WatchedMovie, WatchedShow,
             EmptyShow, ActionMovie, NullMovie, EmptyItem}

SeqsUpTo(S, n) == UNION {[1..m -> S] : m \in 0..n}

----------------------------------------------------------------------------
(* convert_export_to_import: the loop *)

\* Lines 44-45
ConvertStart ==
    /\ pc = "convert"
    /\ result' = <<>>
    /\ skipped_count' = 0
    /\ idx' = 0
    /\ pc' = "loop"
    /\ UNCHANGED <<data, extractVars, mainVars>>

\* Lines 47-102: one pass of the loop body, on item data[idx + 1].
LoopStep ==
    /\ pc = "loop"
    /\ idx < Len(data)
    /\ LET item == data[idx + 1]
           r == resolve(item)
       IN  \/ /\ r.raised
              /\ pc' = "raised"
              /\ UNCHANGED <<idx, result, skipped_count>>
           \/ /\ ~r.raised
              /\ skips(r)
              /\ skipped_count' = skipped_count + 1
              /\ idx' = idx + 1
              /\ UNCHANGED <<pc, result>>
           \/ /\ ~r.raised
              /\ ~skips(r)
              /\ result' = append_entry(result, build_entry(item, r))
              /\ idx' = idx + 1
              /\ UNCHANGED <<pc, skipped_count>>
    /\ UNCHANGED <<data, extractVars, mainVars>>

\* Lines 104-107: the loop is over; return result.
LoopExit ==
    /\ pc = "loop"
    /\ idx = Len(data)
    /\ pc' = "returned"
    /\ UNCHANGED <<convertVars, extractVars, mainVars>>

\* extract_id called on its own.
ExtractCall ==
    /\ pc = "extract_id"
    /\ picked' = extract_id(ids)
    /\ pc' = "extracted"
    /\ UNCHANGED <<ids, convertVars, mainVars>>

NoMain ==
    /\ argv = <<>>
    /\ infile = [st |-> "missing"]
    /\ output_file = None
    /\ file_type = "unset"
    /\ outfile = [st |-> "untouched"]
    /\ exc = "none"
    /\ exit_code = -1

NoExtract == ids = JObj(<<>>) /\ picked = <<None, None>>

NoConvert == data = <<>> /\ idx = 0 /\ result = <<>> /\ skipped_count = 0

\* convert_export_to_import on every sequence of at most MaxLen of the items.
Init ==
    /\ pc = "convert"
    /\ data \in SeqsUpTo(SeqItems, MaxLen)
    /\ idx = 0 /\ result = <<>> /\ skipped_count = 0
    /\ NoExtract /\ NoMain

Next == ConvertStart \/ LoopStep \/ LoopExit

Spec == Init /\ [][Next]_vars

\* convert_export_to_import on every one-item sequence, the item with at most
\* MaxKeys keys.
InitItem ==
    /\ pc = "convert"
    /\ data \in {<<it>> : it \in Items(MaxKeys)}
    /\ idx = 0 /\ result = <<>> /\ skipped_count = 0
    /\ NoExtract /\ NoMain

SpecItem == InitItem /\ [][Next]_vars

\* extract_id on every identifier set over the providers.
IdValues == {None, JStr(""), JInt(0), JStr("tt123"), JInt(456)}

IdSets == {JObj(f) : f \in UNION {[D -> IdValues] : D \in SUBSET Providers}}

InitExtract ==
    /\ pc = "extract_id"
    /\ ids \in IdSets
    /\ picked = <<None, None>>
    /\ NoConvert /\ NoMain

NextExtract == ExtractCall

SpecExtract == InitExtract /\ [][NextExtract]_vars

----------------------------------------------------------------------------
(* detect_file_type, generate_output_filename and main *)

\* detect_file_type with the movie test before the action/type test.
detect_file_type_movie_first(d) ==
    IF Len(d) = 0 THEN "unknown"
    ELSE LET first_item == d[1] IN
         IF In("movie", first_item) THEN "watched-movies"
         ELSE IF In("action", first_item) \/ In("type", first_item) THEN "history"
         ELSE IF In("show", first_item) THEN "watched-shows"
         ELSE "unknown"

\* Lines 110-124, on a list d.
detect_file_type(d) ==
    IF Len(d) = 0 THEN "unknown"
    ELSE LET first_item == d[1] IN
         IF In("action", first_item) \/ In("type", first_item) THEN "history"
         ELSE IF In("movie", first_item) THEN "watched-movies"
         ELSE IF In("show", first_item) THEN "watched-shows"
         ELSE "unknown"

\* A path is its stem and its suffix: Path("history-1.json").stem is "history-1".
Path(stem, suffix) == [stem |-> stem, suffix |-> suffix]

\* Lines 133-139
name_mapping ==
    [x \in {"history-1", "history-2", "history-3", "watched-movies", "watched-shows"} |->
        CASE x \in {"history-1", "history-2", "history-3"} -> "history_import"
          [] x = "watched-movies" -> "movies_import"
          [] x = "watched-shows" -> "shows_import"]

\* Lines 127-142
generate_output_filename(input_file) ==
    LET stem == input_file.stem
        output_name == IF stem \in DOMAIN name_mapping THEN name_mapping[stem]
                       ELSE stem \o "_import"
    IN  Path(output_name, ".json")

\* sys.exit(code)
Exit(code) == exit_code' = code /\ pc' = "exited"

\* Lines 147-156
CheckArgs ==
    /\ pc = "main"
    /\ IF Len(argv) < 2
       THEN Exit(1)
       ELSE pc' = "exists" /\ UNCHANGED exit_code
    /\ UNCHANGED <<argv, infile, output_file, file_type, outfile, exc,
                   convertVars, extractVars>>

\* Lines 158-167
CheckExists ==
    /\ pc = "exists"
    /\ IF infile.st = "missing"
       THEN Exit(1) /\ UNCHANGED output_file
       ELSE /\ output_file' = IF Len(argv) >= 3 THEN argv[3]
                              ELSE generate_output_filename(argv[2])
            /\ pc' = "load"
            /\ UNCHANGED exit_code
    /\ UNCHANGED <<argv, infile, file_type, outfile, exc, convertVars, extractVars>>

\* Lines 169-182, with the handlers of lines 201-210: open and json.load, the
\* list test, detect_file_type.  A file that exists and cannot be opened or
\* decoded raises an exception that only `except Exception` catches.
LoadInput ==
    /\ pc = "load"
    /\ \/ /\ infile.st = "unreadable"
          /\ exc' = "Exception"
          /\ Exit(1)
          /\ UNCHANGED <<data, file_type>>
       \/ /\ infile.st = "invalid"
          /\ exc' = "JSONDecodeError"
          /\ Exit(1)
          /\ UNCHANGED <<data, file_type>>
       \/ /\ infile.st = "json"
          /\ infile.value.t # "list"
          /\ Exit(1)
          /\ UNCHANGED <<data, file_type, exc>>
       \/ /\ infile.st = "json"
          /\ infile.value.t = "list"
          /\ data' = infile.value.l
          /\ file_type' = detect_file_type(infile.value.l)
          /\ pc' = "convert"
          /\ UNCHANGED <<exc, exit_code>>
    /\ UNCHANGED <<argv, infile, output_file, outfile, idx, result, skipped_count,
                   extractVars>>

\* Lines 208-210: convert_export_to_import raised inside the try block.
ConvertRaised ==
    /\ pc = "raised"
    /\ exc' = "Exception"
    /\ Exit(1)
    /\ UNCHANGED <<argv, infile, output_file, file_type, outfile, convertVars,
                   extractVars>>

\* CheckConverted without the test for an empty result.
CheckConverted_no_empty_test ==
    /\ pc = "returned"
    /\ pc' = "save"
    /\ UNCHANGED <<argv, infile, output_file, file_type, outfile, exc, exit_code,
                   convertVars, extractVars>>

\* Lines 186-190
CheckConverted ==
    /\ pc = "returned"
    /\ IF result = <<>>
       THEN Exit(1)
       ELSE pc' = "save" /\ UNCHANGED exit_code
    /\ UNCHANGED <<argv, infile, output_file, file_type, outfile, exc,
                   convertVars, extractVars>>

\* Line 194: open(output_file, "w") creates or truncates the file, or raises
\* (FileNotFoundError for a missing directory, another OSError otherwise).
OpenOutput ==
    /\ pc = "save"
    /\ \/ /\ outfile' = [st |-> "truncated"]
          /\ pc' = "dump"
          /\ UNCHANGED <<exc, exit_code>>
       \/ /\ exc' \in {"FileNotFoundError", "Exception"}
          /\ Exit(1)
          /\ UNCHANGED outfile
    /\ UNCHANGED <<argv, infile, output_file, file_type, convertVars, extractVars>>

\* Lines 195-199: json.dump writes the whole list and main returns, or the
\* write raises part-way.
DumpOutput ==
    /\ pc = "dump"
    /\ \/ /\ outfile' = [st |-> "written", content |-> result]
          /\ Exit(0)
          /\ UNCHANGED exc
       \/ /\ outfile' = [st |-> "partial"]
          /\ exc' = "Exception"
          /\ Exit(1)
    /\ UNCHANGED <<argv, infile, output_file, file_type, convertVars, extractVars>>

ProgramName == Path("trakt_converter", ".py")

InputPaths == {Path("history-1", ".json"), Path("watched-movies", ".json"),
               Path("export", ".json")}

ExplicitOutput == Path("out", ".json")

ArgvChoices ==
    {<<ProgramName>>}
    \cup {<<ProgramName, p>> : p \in InputPaths}
    \cup {<<ProgramName, p, ExplicitOutput>> : p \in InputPaths}

\* What the input path holds: nothing, a file that cannot be read, text that
\* is no JSON, a JSON value that is no array, or an array of items.
InfileChoices ==
    {[st |-> "missing"], [st |-> "unreadable"], [st |-> "invalid"]}
    \cup {[st |-> "json", value |-> v] : v \in {JObj(<<>>), JInt(456), None}}
    \cup {[st |-> "json", value |-> JList(d)] : d \in SeqsUpTo(SeqItems, MaxFileLen)}

InitMain ==
    /\ pc = "main"
    /\ argv \in ArgvChoices
    /\ infile \in InfileChoices
    /\ output_file = None
    /\ file_type = "unset"
    /\ outfile = [st |-> "untouched"]
    /\ exc = "none"
    /\ exit_code = -1
    /\ NoConvert /\ NoExtract

NextMain ==
    \/ CheckArgs \/ CheckExists \/ LoadInput
    \/ ConvertStart \/ LoopStep \/ LoopExit
    \/ ConvertRaised \/ CheckConverted \/ OpenOutput \/ DumpOutput

SpecMain == InitMain /\ [][NextMain]_vars

----------------------------------------------------------------------------
(* The claims, stated in the words of the specification *)

\* "truthy (non-empty, non-zero, non-null)"
Usable(v) == v # None /\ v # JStr("") /\ v # JInt(0)

\* The fixed priority order imdb > tmdb > tvdb > trakt.
Priority == <<"imdb", "tmdb", "tvdb", "trakt">>

IdFields == {"imdb_id", "tmdb_id", "tvdb_id", "trakt_id"}

UsableProviders(s) == {n \in 1..4 : Priority[n] \in DOMAIN s.o /\ Usable(s.o[Priority[n]])}

\* The pair the Identifier Selector is to return for identifier set s.
Best(s) ==
    IF UsableProviders(s) = {} THEN <<None, None>>
    ELSE LET m == CHOOSE x \in UsableProviders(s) : \A y \in UsableProviders(s) : x <= y
         IN  <<JStr(Priority[m] \o "_id"), s.o[Priority[m]]>>

\* Item it has a sub-record k with a non-empty identifier set.
HasIdSet(it, k) ==
    /\ k \in DOMAIN it.o
    /\ it.o[k].t = "obj"
    /\ "ids" \in DOMAIN it.o[k].o
    /\ it.o[k].o["ids"].t = "obj"
    /\ DOMAIN it.o[k].o["ids"].o # {}

IdSetOf(it, k) == it.o[k].o["ids"]

HasKey(it, k) == k \in DOMAIN it.o

\* The sub-records of a history item in their fixed order.
SubOrder == <<"episode", "movie", "show", "season">>

\* The pair selected for a history item: the selector applied to the first
\* sub-record with a non-empty identifier set, and to that one alone.
HistorySelection(it) ==
    LET M == {n \in 1..4 : HasIdSet(it, SubOrder[n])} IN
    IF M = {} THEN <<None, None>>
    ELSE LET m == CHOOSE x \in M : \A y \in M : x <= y
         IN  Best(IdSetOf(it, SubOrder[m]))

\* The pair selected for an item without a type key: the movie's set if the
\* movie has a non-empty one, else the show's.
WatchedSelection(it) ==
    IF HasIdSet(it, "movie") THEN Best(IdSetOf(it, "movie"))
    ELSE IF HasIdSet(it, "show") THEN Best(IdSetOf(it, "show"))
    ELSE <<None, None>>

Selection(it) == IF HasKey(it, "type") THEN HistorySelection(it) ELSE WatchedSelection(it)

\* The call of convert_export_to_import has ended, by return or by an exception.
Ended == pc \in {"returned", "raised"}

\* The one item of a one-item run, and the record it produced.
TheItem == data[1]
TheRecord == result[1]
Emitted == pc = "returned" /\ Len(data) = 1 /\ Len(result) = 1
Skipped == pc = "returned" /\ Len(data) = 1 /\ result = <<>> /\ skipped_count = 1

\* C1 (as claimed): every item is handled in exactly one of two ways, one
\* record appended or the skip counter incremented by one, so when the call
\* has ended the records and the skips add up to the number of input items.
C1_EveryItemHandled ==
    /\ pc = "loop" => Len(result) + skipped_count = idx
    /\ Ended => Len(result) + skipped_count = Len(data)

\* C2: extract_id returns the pair (<provider>_id, value) of the first
\* provider in the order imdb, tmdb, tvdb, trakt whose value is present and
\* truthy, skipping present but falsy ones, and (absent, absent) exactly when
\* no provider has a truthy value.
C2_FirstUsableProvider ==
    pc = "extracted" =>
        /\ picked = Best(ids)
        /\ (picked = <<None, None>>) <=> (UsableProviders(ids) = {})

\* A falsy imdb is passed over for the tmdb, which wins over the trakt.
C2_Witness ==
    /\ pc = "extracted"
    /\ "imdb" \in DOMAIN ids.o /\ ~Usable(ids.o["imdb"])
    /\ "tmdb" \in DOMAIN ids.o /\ Usable(ids.o["tmdb"])
    /\ "trakt" \in DOMAIN ids.o /\ Usable(ids.o["trakt"])
    /\ picked = <<JStr("tmdb_id"), ids.o["tmdb"]>>

\* C3 (as claimed): every output record has exactly one identifier field and
\* a type field that is one of movie, show, episode, season.
C3_TypeAmongTheFour ==
    \A n \in 1..Len(result) :
        /\ Cardinality(DOMAIN result[n].o \cap IdFields) = 1
        /\ "type" \in DOMAIN result[n].o
        /\ result[n].o["type"] \in {JStr("movie"), JStr("show"), JStr("episode"), JStr("season")}

\* C3 (amended): every output record has exactly one identifier field and a
\* type field; the type is "movie" or "show" for an item without a type key,
\* and for a history item it is the item's own type value, whatever that is.
C3_TypeCopied ==
    Emitted =>
        /\ Cardinality(DOMAIN TheRecord.o \cap IdFields) = 1
        /\ "type" \in DOMAIN TheRecord.o
        /\ IF HasKey(TheItem, "type")
           THEN TheRecord.o["type"] = TheItem.o["type"]
           ELSE TheRecord.o["type"] \in {JStr("movie"), JStr("show")}

\* A history item whose type is the empty string yields a record of that type.
C3_Witness ==
    /\ Emitted
    /\ HasKey(TheItem, "type")
    /\ TheItem.o["type"] = JStr("")
    /\ TheRecord.o["type"] = JStr("")
    /\ "imdb_id" \in DOMAIN TheRecord.o

C5_WatchedItem ==
    (Len(data) = 1 /\ ~HasKey(TheItem, "type") /\ Ended /\ WatchedSelection(TheItem) # <<None, None>>) =>
        LET sel == WatchedSelection(TheItem) IN
        /\ Emitted
        /\ DOMAIN TheRecord.o \cap IdFields = {sel[1].s}
        /\ TheRecord.o[sel[1].s] = sel[2]
        /\ TheRecord.o["type"] = IF HasIdSet(TheItem, "movie") THEN JStr("movie") ELSE JStr("show")
        /\ ("watched_at" \in DOMAIN TheRecord.o)
               <=> (HasKey(TheItem, "last_watched_at") /\ Usable(TheItem.o["last_watched_at"]))
        /\ "watched_at" \in DOMAIN TheRecord.o
               => TheRecord.o["watched_at"] = TheItem.o["last_watched_at"]

\* C6: in every output record watched_at is present iff the timestamp source
\* is truthy; watchlisted_at iff the key is on the item, whatever its value;
\* rating iff the item's rating is present and truthy; rated_at iff rating
\* was copied and the key rated_at is on the item.  Copied values are the
\* item's, and no other field appears.
TimestampSource(it) == IF HasKey(it, "type") THEN "watched_at" ELSE "last_watched_at"

C6_OptionalFields ==
    Emitted =>
        LET it == TheItem
            rec == TheRecord.o
            src == TimestampSource(it)
            rated == HasKey(it, "rating") /\ Usable(it.o["rating"])
        IN  /\ ("watched_at" \in DOMAIN rec) <=> (HasKey(it, src) /\ Usable(it.o[src]))
            /\ "watched_at" \in DOMAIN rec => rec["watched_at"] = it.o[src]
            /\ ("watchlisted_at" \in DOMAIN rec) <=> HasKey(it, "watchlisted_at")
            /\ "watchlisted_at" \in DOMAIN rec => rec["watchlisted_at"] = it.o["watchlisted_at"]
            /\ ("rating" \in DOMAIN rec) <=> rated
            /\ "rating" \in DOMAIN rec => rec["rating"] = it.o["rating"]
            /\ ("rated_at" \in DOMAIN rec) <=> (rated /\ HasKey(it, "rated_at"))
            /\ "rated_at" \in DOMAIN rec => rec["rated_at"] = it.o["rated_at"]
            /\ DOMAIN rec \subseteq
                   IdFields \cup {"type", "watched_at", "watchlisted_at", "rating", "rated_at"}

\* An item with a rating of 0 and a rated_at yields a record with neither.
C6_Witness ==
    /\ Emitted
    /\ HasKey(TheItem, "rating") /\ TheItem.o["rating"] = JInt(0)
    /\ HasKey(TheItem, "rated_at")
    /\ "rating" \notin DOMAIN TheRecord.o
    /\ "rated_at" \notin DOMAIN TheRecord.o

\* C7 (as claimed): an item is skipped, and processing goes on, exactly when
\* no usable identifier is resolved for it; so is every history item whose
\* sub-records are absent or have empty identifier sets, and every item that
\* matches none of the three shapes.
C7_SkippedIffNoIdentifier ==
    (Len(data) = 1 /\ Ended) =>
        IF Selection(TheItem) = <<None, None>> THEN Skipped ELSE Emitted

\* The records of the items among the first n of d that are not skipped, in
\* the order of the items.
RECURSIVE Image(_, _)
Image(d, n) ==
    IF n = 0 THEN <<>>
    ELSE LET r == resolve(d[n]) IN
         IF skips(r) THEN Image(d, n - 1)
         ELSE Append(Image(d, n - 1), build_entry(d[n], r))

\* C8: the output is the image of the subsequence of the items that are not
\* skipped, in input order, each record made from its own item alone.
C8_OrderPreserved ==
    pc \in {"loop", "returned", "raised"} => result = Image(data, idx)

\* Three items, the middle one skipped: the two records keep their order.
C8_Witness ==
    /\ pc = "returned"
    /\ Len(data) = 3
    /\ skips(resolve(data[2]))
    /\ Len(result) = 2
    /\ result[1] = build_entry(data[1], resolve(data[1]))
    /\ result[2] = build_entry(data[3], resolve(data[3]))
    /\ result[1] # result[2]

\* The classification of a sequence by its first element.
Shape(d) ==
    IF d = <<>> THEN "unknown"
    ELSE IF HasKey(d[1], "action") \/ HasKey(d[1], "type") THEN "history"
    ELSE IF HasKey(d[1], "movie") THEN "watched-movies"
    ELSE IF HasKey(d[1], "show") THEN "watched-shows"
    ELSE "unknown"

\* C9: detect_file_type classifies by the first element only, first match
\* winning in the order history (action or type key), watched-movies (movie
\* key), watched-shows (show key), unknown, and unknown for an empty
\* sequence; whatever it returned, the normalizer's output is the image of
\* the items.
C9_AdvisoryShape ==
    /\ file_type # "unset" => file_type = Shape(data)
    /\ (file_type # "unset" /\ pc \in {"loop", "returned", "raised", "save", "dump", "exited"})
           => result = Image(data, idx)

\* A first element with an action key and no type key: the detector says
\* history, the normalizer makes a watched-movie record of it.
C9_Witness ==
    /\ pc = "returned"
    /\ file_type = "history"
    /\ Len(data) >= 1
    /\ HasKey(data[1], "action") /\ ~HasKey(data[1], "type")
    /\ Len(result) >= 1
    /\ result[1].o["type"] = JStr("movie")

\* The cases the claim lists: no input path, no input file, no JSON, no
\* array, no convertible item.
ListedError ==
    \/ Len(argv) < 2
    \/ infile.st \in {"missing", "invalid"}
    \/ infile.st = "json" /\ infile.value.t # "list"
    \/ /\ infile.st = "json" /\ infile.value.t = "list"
       /\ \A n \in 1..Len(infile.value.l) : Selection(infile.value.l[n]) = <<None, None>>

FullyWritten ==
    /\ outfile.st = "written"
    /\ outfile.content = Image(infile.value.l, Len(infile.value.l))

\* C10 (as claimed): a run ends with exit code 1 and no output file written
\* in the listed cases, and in every other case writes the full output and
\* ends with exit code 0; no run leaves part of the output.
C10_ExitCodes ==
    pc = "exited" =>
        /\ outfile.st # "partial"
        /\ IF ListedError
           THEN exit_code = 1 /\ outfile.st = "untouched"
           ELSE exit_code = 0 /\ FullyWritten

\* C10 (amended): a run ends with exit code 1, the output file untouched, in
\* the listed cases and whenever an exception is raised while the input is
\* read, the items are converted or the output file is opened; it ends with
\* exit code 1 and part of the output in the file only when the write itself
\* raises; in every other case the full output is written and the exit code
\* is 0.
C10_ExitCodesWithExceptions ==
    pc = "exited" =>
        /\ (ListedError \/ exc # "none") <=> exit_code = 1
        /\ (~ListedError /\ exc = "none") <=> (exit_code = 0 /\ FullyWritten)
        /\ exit_code = 1 => outfile.st \in {"untouched", "partial"}
        /\ outfile.st = "partial" => (exc = "Exception" /\ ~ListedError /\ result # <<>>)
        /\ ListedError => outfile.st = "untouched"

\* An input file that exists and cannot be read, none of the listed cases:
\* exit code 1, the output file untouched.
C10_Witness ==
    /\ pc = "exited"
    /\ infile.st = "unreadable"
    /\ ~ListedError
    /\ exc = "Exception"
    /\ exit_code = 1
    /\ outfile.st = "untouched"

====
